---- MODULE Spec2Model ----
(***************************************************************************)
(* Order placement of the Printeez backend: routes/order.js (POST and GET  *)
(* /api/orders), the Order and Product schemas, and the admin operations   *)
(* on the catalog (routes/admin.js, routes/product.js).                    *)
(*                                                                         *)
(* Every `await` of a handler is a point where other requests may run, so  *)
(* a handler is a sequence of steps, one per store operation.              *)
(***************************************************************************)
EXTENDS Integers, Sequences, FiniteSets, TLC

(* ---------------------------------------------------------------- bounds *)
NReq     == 2      \* request slots (handlers that may be in flight)
MaxStock == 2      \* largest stock count of the initial catalog
MaxQty   == 2      \* largest quantity a request carries
MaxItems == 2      \* largest number of line items of a request
MaxPrice == 2      \* largest catalog price
MaxAdminOps == 1   \* admin operations explored in one behaviour
MaxStatusOps == 2  \* status updates explored in one behaviour
MaxShopOps == 3    \* cart or wishlist requests explored in one behaviour
NRate    == 2      \* rating requests that may be in flight
MaxOrders == 101   \* largest number of orders a listing matches

MinQty   == 0 - 1  \* smallest quantity a request carries (a client may send any number)

Reqs  == 1..NReq
PIDs  == {"p1", "p2", "p3"}       \* product ids; "p3" resolves to no product
Users == {"u1", "u2"}             \* authenticated users
Sizes == {"Small", "Large"}       \* sizes a request may name
Addresses == {"", "123 Main St"}  \* delivery addresses a request may carry

(* --------------------------------------------------------------- helpers *)
\* the sequences over S of length at most n
SeqsUpTo(S, n) == UNION {[1..m -> S] : m \in 0..n}

(* --------------------------------------------------------- request inputs *)
\* line items a client may send: every quantity of each size of "p1", the
\* positive quantities of the size of "p2", one item naming a size the
\* product does not have and one naming a product that does not exist
Items ==
  {[productId |-> "p1", size |-> s, quantity |-> q] : s \in Sizes, q \in MinQty..MaxQty}
  \cup {[productId |-> "p2", size |-> "Small", quantity |-> q] : q \in 1..MaxQty}
  \cup {[productId |-> "p2", size |-> "Large", quantity |-> 1],
        [productId |-> "p3", size |-> "Small", quantity |-> 1]}

Bodies == {[products |-> ps, address |-> a] : ps \in SeqsUpTo(Items, MaxItems), a \in Addresses}

UserOf(r) == IF r = 1 THEN "u1" ELSE "u2"

NoOrder == [userId |-> "none", products |-> <<>>, totalAmount |-> 0, address |-> "",
            status |-> "none", paymentMethod |-> "none"]
NoRes   == [status |-> 0, error |-> "none"]
NoMail  == [calls |-> 0, state |-> "none"]
NoOpt   == [status |-> 0, error |-> "none", order |-> NoOrder, stock |-> <<>>, salesCount |-> <<>>]
NoRate  == [pc |-> "idle", user |-> "none", orderId |-> 0, productId |-> "none", rating |-> 0,
            order |-> NoOrder, seen |-> <<>>, code |-> 0]
RateSlots == 1..NRate
NoCart  == [exists |-> FALSE, items |-> <<>>]      \* Cart.findOne yields null
NoWishlist == [exists |-> FALSE, products |-> <<>>] \* Wishlist.findOne yields null
NoShop  == [n |-> 0, api |-> "none", method |-> "none", path |-> <<>>, user |-> "none",
            quantity |-> 0, code |-> 0, message |-> "none"]

\* no listing has been requested
NoListing == [route |-> "none", limit |-> 0, total |-> 0, page |-> 0, pages |-> 0,
              count |-> 0, data |-> <<>>, got |-> <<>>, nonEmpty |-> 0]

VARIABLES
  live,          \* ids of the products in the Product collection
  price,         \* price[p]: Product.price
  stock,         \* stock[p][s]: Product.sizes entry of size s (domain = the product's sizes)
  salesCount,    \* salesCount[p]: Product.salesCount
  orders,        \* the Order collection, in insertion order (index = _id)
  pc,            \* pc[r]: position of handler r
  body,          \* body[r]: req.body
  i,             \* i[r]: position of the validation loop
  totalAmount,   \* totalAmount[r]
  orderProducts, \* orderProducts[r]
  order,         \* order[r]: the document the handler saved (NoOrder before)
  k,             \* k[r]: position of the stock update loop
  res,           \* res[r]: the response sent
  pre,           \* pre[r]: catalog and orders when request r arrived
  adminOps,      \* number of admin operations performed so far
  mail,          \* mail[r]: invocations of sendOrderConfirmation by handler r, and the state of the last
  statusLog,     \* the status updates served so far: route, id, requested status, response code
  carts,         \* carts[u]: the Cart document of user u
  wishlists,     \* wishlists[u]: the Wishlist document of user u
  shop,          \* the cart and wishlist requests served: their number, the last one and its response
  opt,           \* opt[r]: what routes/order_optimized.js makes of request r on the catalog it arrived at
  ratings,       \* ratings[p]: Product.ratings
  rate,          \* rate[j]: the rating request handled in slot j
  listing        \* the pages a client has fetched from a paginated order listing

vars == <<live, price, stock, salesCount, orders, pc, body, i, totalAmount,
          orderProducts, order, k, res, pre, adminOps, mail, statusLog,
          carts, wishlists, shop, opt, ratings, rate, listing>>
\* the state of the cart, wishlist and rating routes and of the optimized
\* order route
ext == <<carts, wishlists, shop, opt, ratings, rate, listing>>
catalog == <<live, price, stock, salesCount>>

Init ==
  /\ live = {"p1", "p2"}
  /\ price = [p \in PIDs |-> IF p = "p1" THEN 1 ELSE 2]
  /\ \E a, b \in 0..MaxStock :
       stock = [p \in PIDs |-> IF p = "p1" THEN [Small |-> a, Large |-> b]
                               ELSE IF p = "p2" THEN [Small |-> 1]
                               ELSE <<>>]
  /\ salesCount = [p \in PIDs |-> 0]
  /\ orders = <<>>
  /\ pc = [r \in Reqs |-> "idle"]
  /\ body = [r \in Reqs |-> [products |-> <<>>, address |-> ""]]
  /\ i = [r \in Reqs |-> 1]
  /\ totalAmount = [r \in Reqs |-> 0]
  /\ orderProducts = [r \in Reqs |-> <<>>]
  /\ order = [r \in Reqs |-> NoOrder]
  /\ k = [r \in Reqs |-> 1]
  /\ res = [r \in Reqs |-> NoRes]
  /\ pre = [r \in Reqs |-> [stock |-> <<>>, salesCount |-> <<>>, orders |-> <<>>]]
  /\ adminOps = 0
  /\ mail = [r \in Reqs |-> NoMail]
  /\ statusLog = <<>>
  /\ carts = [u \in Users |-> NoCart]
  /\ wishlists = [u \in Users |-> NoWishlist]
  /\ shop = NoShop
  /\ opt = [r \in Reqs |-> NoOpt]
  /\ ratings = [p \in PIDs |-> <<>>]
  /\ rate = [j \in RateSlots |-> NoRate]
  /\ listing = NoListing

(* ------------------------------------------------ POST /api/orders steps *)
\* res.status(s).json(...): the handler ends
Respond(r, s, e) ==
  /\ pc' = [pc EXCEPT ![r] = "done"]
  /\ res' = [res EXCEPT ![r] = [status |-> s, error |-> e]]

\* the catch block of the handler
Catch(r) == Respond(r, 400, "OrderCreationFailed")

\* a check that only rejects a size that is out of stock
InsufficientStock_OutOfStock(st, q) == st <= 0

\* a check that also rejects an order for exactly the stock that is left
InsufficientStock_Inclusive(st, q) == st <= q

\* the check `sizeData.stock < item.quantity`
InsufficientStock(st, q) == st < q

\* a lookup whose result is never tested
NotFound_Unchecked(p) == FALSE

\* the check `!product` on the result of Product.findById
NotFound(p) == p \notin live

\* an amount that leaves the quantity out
LineAmount_PriceOnly(pr, q) == pr

\* the amount of a line: `product.price * item.quantity`
LineAmount(pr, q) == pr * q

\* the request arrives; the loop `for (const item of products)` is entered,
\* or skipped when the list is empty
Start(r, b) ==
  /\ pc[r] = "idle"
  /\ body' = [body EXCEPT ![r] = b]
  /\ pc' = [pc EXCEPT ![r] = IF b.products = <<>> THEN "save" ELSE "validate"]
  /\ pre' = [pre EXCEPT ![r] = [stock |-> stock, salesCount |-> salesCount, orders |-> orders]]
  /\ UNCHANGED <<catalog, orders, i, totalAmount, orderProducts, order, k, res, adminOps, mail, statusLog>>
  /\ UNCHANGED ext

\* one iteration of the validation loop: Product.findById and the checks
Validate(r, ok) ==
  /\ pc[r] = "validate"
  /\ LET item == body[r].products[i[r]]
         p    == item.productId
     IN  IF ~ok THEN
           Catch(r) /\ UNCHANGED <<i, totalAmount, orderProducts>>
         ELSE IF NotFound(p) THEN
           Respond(r, 400, "ProductNotFound") /\ UNCHANGED <<i, totalAmount, orderProducts>>
         ELSE IF item.size \notin DOMAIN stock[p] THEN
           Respond(r, 400, "SizeUnavailable") /\ UNCHANGED <<i, totalAmount, orderProducts>>
         ELSE IF InsufficientStock(stock[p][item.size], item.quantity) THEN
           Respond(r, 400, "InsufficientStock") /\ UNCHANGED <<i, totalAmount, orderProducts>>
         ELSE
           /\ totalAmount' = [totalAmount EXCEPT ![r] = @ + LineAmount(price[p], item.quantity)]
           /\ orderProducts' = [orderProducts EXCEPT ![r] =
                 Append(@, [productId |-> p, size |-> item.size,
                            quantity |-> item.quantity, price |-> price[p]])]
           /\ i' = [i EXCEPT ![r] = @ + 1]
           /\ pc' = [pc EXCEPT ![r] = IF i[r] = Len(body[r].products) THEN "save" ELSE "validate"]
           /\ UNCHANGED res
  /\ UNCHANGED <<catalog, orders, body, order, k, pre, adminOps, mail, statusLog>>
  /\ UNCHANGED ext

\* what the Order schema keeps of a line item: it declares productId and
\* quantity only, and a strict schema drops every other field
CastLineItem(p) == [productId |-> p.productId, quantity |-> p.quantity]

CastProducts(ps) == [n \in 1..Len(ps) |-> CastLineItem(ps[n])]

\* the validators of the Order schema that a request can fail: `address` is
\* a required string, which an empty string does not satisfy
OrderValid(doc) == doc.address # ""

\* new Order({...}) with the defaults of the schema
NewOrder(r) ==
  [userId |-> UserOf(r), products |-> CastProducts(orderProducts[r]),
   totalAmount |-> totalAmount[r], address |-> body[r].address,
   status |-> "Pending", paymentMethod |-> "COD"]

\* await order.save()
Save(r, ok) ==
  /\ pc[r] = "save"
  /\ IF ok /\ OrderValid(NewOrder(r)) THEN
       /\ orders' = Append(orders, NewOrder(r))
       /\ order' = [order EXCEPT ![r] = NewOrder(r)]
       /\ pc' = [pc EXCEPT ![r] = IF body[r].products = <<>> THEN "user" ELSE "decrement"]
       /\ UNCHANGED res
     ELSE
       Catch(r) /\ UNCHANGED <<orders, order>>
  /\ UNCHANGED <<catalog, body, i, totalAmount, orderProducts, k, pre, adminOps, mail, statusLog>>
  /\ UNCHANGED ext

\* the filter {_id, "sizes.size"} of the stock update
Matches(item) == item.productId \in live /\ item.size \in DOMAIN stock[item.productId]

\* an update that decrements every size of the product
IncStock_AllSizes(item) ==
  [stock EXCEPT ![item.productId] = [s \in DOMAIN @ |-> @[s] - item.quantity]]

\* $inc "sizes.$.stock" by -quantity on the matched size
IncStock(item) ==
  [stock EXCEPT ![item.productId][item.size] = @ - item.quantity]

\* $inc salesCount by quantity
IncSales(item) ==
  [salesCount EXCEPT ![item.productId] = @ + item.quantity]

\* one iteration of the stock loop: Product.findOneAndUpdate, which is one
\* atomic operation of the store and changes nothing when no document matches
Decrement(r, ok) ==
  /\ pc[r] = "decrement"
  /\ LET item == body[r].products[k[r]]
     IN  IF ~ok THEN
           Catch(r) /\ UNCHANGED <<stock, salesCount, k>>
         ELSE
           /\ IF Matches(item)
                THEN stock' = IncStock(item) /\ salesCount' = IncSales(item)
                ELSE UNCHANGED <<stock, salesCount>>
           /\ k' = [k EXCEPT ![r] = @ + 1]
           /\ pc' = [pc EXCEPT ![r] = IF k[r] = Len(body[r].products) THEN "user" ELSE "decrement"]
           /\ UNCHANGED res
  /\ UNCHANGED <<live, price, orders, body, i, totalAmount, orderProducts, order, pre,
                 adminOps, mail, statusLog>>
  /\ UNCHANGED ext

\* a user document that carries no e-mail address fails `user && user.email`
HasEmail_Never(u) == FALSE

\* the test `user && user.email`: "u1" has an e-mail address on file, the
\* document of "u2" has none
HasEmail(u) == u = "u1"

\* await User.findById(req.user._id); when the user has an e-mail address the
\* handler calls sendOrderConfirmation and waits for it, otherwise it goes
\* on to res.status(201).json(order)
FindUser(r, ok) ==
  /\ pc[r] = "user"
  /\ IF ~ok THEN
       Catch(r) /\ UNCHANGED mail
     ELSE IF HasEmail(UserOf(r)) THEN
       /\ mail' = [mail EXCEPT ![r] = [calls |-> @.calls + 1, state |-> "sending"]]
       /\ pc' = [pc EXCEPT ![r] = "email"]
       /\ UNCHANGED res
     ELSE
       Respond(r, 201, "none") /\ UNCHANGED mail
  /\ UNCHANGED <<catalog, orders, body, i, totalAmount, orderProducts, order, k, pre,
                 adminOps, statusLog>>
  /\ UNCHANGED ext

\* the promise of sendOrderConfirmation settles: the function catches its
\* own errors and returns whether the mail was sent; the handler, which
\* awaited it, goes on to res.status(201).json(order)
SendMail(r, sent) ==
  /\ pc[r] = "email"
  /\ mail' = [mail EXCEPT ![r].state = IF sent THEN "sent" ELSE "failed"]
  /\ Respond(r, 201, "none")
  /\ UNCHANGED <<catalog, orders, body, i, totalAmount, orderProducts, order, k, pre,
                 adminOps, statusLog>>
  /\ UNCHANGED ext

(* ------------------------------------------------- the admin operations *)
\* the validators a product document must pass on save(): min 0 on the
\* stock of every size, on the price and on salesCount
ProductValid(p, st) ==
  /\ \A s \in DOMAIN st : st[s] >= 0
  /\ price[p] >= 0
  /\ salesCount[p] >= 0

\* an admin request is served (their number is bounded)
AdminOp == adminOps < MaxAdminOps /\ adminOps' = adminOps + 1

\* PUT /api/admin/products/:id/stock {size, stock}
UpdateStock(p, s, v) ==
  /\ AdminOp
  /\ p \in live
  /\ s \in DOMAIN stock[p]
  /\ ProductValid(p, [stock[p] EXCEPT ![s] = v])
  /\ stock' = [stock EXCEPT ![p][s] = v]
  /\ UNCHANGED <<live, price, salesCount, orders, pc, body, i, totalAmount,
                 orderProducts, order, k, res, pre, mail, statusLog>>
  /\ UNCHANGED ext

\* PUT /api/products/:id {price}
UpdatePrice(p, v) ==
  /\ AdminOp
  /\ p \in live
  /\ price' = [price EXCEPT ![p] = v]
  /\ UNCHANGED <<live, stock, salesCount, orders, pc, body, i, totalAmount,
                 orderProducts, order, k, res, pre, mail, statusLog>>
  /\ UNCHANGED ext

\* DELETE /api/products/:id
DeleteProduct(p) ==
  /\ AdminOp
  /\ p \in live
  /\ live' = live \ {p}
  /\ UNCHANGED <<price, stock, salesCount, orders, pc, body, i, totalAmount,
                 orderProducts, order, k, res, pre, mail, statusLog>>
  /\ UNCHANGED ext

(* ------------------------------------------------- order status updates *)
BadId == 0   \* stands for an id string that is not an ObjectId, such as "nonexistent-id"

\* the :id a status update may carry: a malformed one, the id of the first
\* order, and a well-formed id that belongs to no order of the model
OrderIds == {BadId, 1, 2}

\* the statuses a request body may carry; "Refunded" stands for any string
\* outside the lifecycle
StatusInputs == {"Pending", "Shipped", "Delivered", "Cancelled", "Refunded"}

\* the statuses of the order lifecycle
AllowedStatuses == {"Pending", "Shipped", "Delivered", "Cancelled"}

\* the two routes that update the status of an order
StatusRoutes == {"orders", "admin"}

\* the status code of the catch block of the route
CatchCode(route) == IF route = "orders" THEN 400 ELSE 500

\* an update that replaces the document by one holding the status only
SetStatus_Replace(o, s) == [NoOrder EXCEPT !.status = s]

\* an update that treats "Delivered" as final
SetStatus_Final(o, s) == IF o.status = "Delivered" THEN o ELSE [o EXCEPT !.status = s]

\* an update that resets an order whose status is set to what it already is
SetStatus_Toggle(o, s) == [o EXCEPT !.status = IF @ = s THEN "Pending" ELSE s]

\* the update document { status }: $set of the one field, with no validators
\* run (findByIdAndUpdate is called without runValidators)
SetStatus(o, s) == [o EXCEPT !.status = s]

\* a status update is served (their number is bounded)
StatusOp == Len(statusLog) < MaxStatusOps

\* the id resolves to an order of the collection
Resolves(id) == id \in 1..Len(orders)

\* the accounts that may call the status routes: the customers and an
\* account whose isAdmin flag is set
Callers == Users \cup {"admin"}

\* a middleware that lets every authenticated user through
IsAdmin_Anyone(u) == TRUE

\* the test of the admin middleware: req.user.isAdmin
IsAdmin(u) == u = "admin"

\* the admin middleware, then Order.findByIdAndUpdate(req.params.id,
\* { status }, { new: true }) and the response: a caller who is not an admin
\* is answered 403 before the handler runs; a malformed id fails the cast of
\* the filter and the catch block answers; an id that matches nothing yields
\* null and 404; otherwise the status is set and the updated order returned
StatusRequest(route, u, id, s) ==
  /\ LET code == IF ~IsAdmin(u) THEN 403
                 ELSE IF id = BadId THEN CatchCode(route)
                 ELSE IF Resolves(id) THEN 200 ELSE 404
     IN  statusLog' = Append(statusLog, [route |-> route, by |-> u, id |-> id,
                                         status |-> s, code |-> code])
  /\ orders' = IF IsAdmin(u) /\ id # BadId /\ Resolves(id)
                THEN [orders EXCEPT ![id] = SetStatus(@, s)]
                ELSE orders
  /\ UNCHANGED <<catalog, pc, body, i, totalAmount, orderProducts, order, k, res, pre,
                 adminOps, mail>>
  /\ UNCHANGED ext

\* PUT /api/orders/:id/status {status}
UpdateStatus(id, s) == StatusOp /\ StatusRequest("orders", "admin", id, s)

\* PUT /api/admin/orders/:id {status}
AdminUpdateOrder(id, s) == StatusOp /\ StatusRequest("admin", "admin", id, s)

\* the same two routes called by any account
UpdateStatusBy(u, id, s) == StatusOp /\ StatusRequest("orders", u, id, s)

AdminUpdateOrderBy(u, id, s) == StatusOp /\ StatusRequest("admin", u, id, s)

(* ------------------------------------------------- the router's dispatch *)
\* a path below the mount point is the sequence of its segments: <<>> is
\* "/" and <<"clear">> is "/clear"; Param is the segment of a pattern that
\* matches any segment
Param == ":productId"

SegMatch(pat, seg) == pat = Param \/ pat = seg

PathMatch(pattern, path) ==
  /\ Len(pattern) = Len(path)
  /\ \A n \in 1..Len(path) : SegMatch(pattern[n], path[n])

\* the routes of routes/cart.js, in registration order
CartRoutes ==
  << [method |-> "GET",    path |-> <<>>,      handler |-> "getCart"],
     [method |-> "POST",   path |-> <<>>,      handler |-> "addItem"],
     [method |-> "PUT",    path |-> <<Param>>, handler |-> "updateItem"],
     [method |-> "DELETE", path |-> <<Param>>, handler |-> "removeItem"],
     [method |-> "DELETE", path |-> <<"clear">>, handler |-> "clearCart"] >>

\* the routes of the wishlist router, in registration order
WishlistRoutes ==
  << [method |-> "GET",    path |-> <<>>,      handler |-> "getWishlist"],
     [method |-> "POST",   path |-> <<>>,      handler |-> "addProduct"],
     [method |-> "DELETE", path |-> <<Param>>, handler |-> "removeProduct"],
     [method |-> "DELETE", path |-> <<"clear">>, handler |-> "clearWishlist"] >>

\* the router runs the first registered route whose method and pattern match
Dispatch(routes, m, path) ==
  LET S == {n \in 1..Len(routes) : routes[n].method = m /\ PathMatch(routes[n].path, path)}
  IN  IF S = {} THEN "none"
      ELSE routes[CHOOSE n \in S : \A j \in S : n <= j].handler

\* req.params.productId
PathParam(path) == IF path = <<>> THEN "none" ELSE path[1]

(* --------------------------------------------------------- /api/cart *)
\* a cart or wishlist request is served (their number is bounded)
ShopOp == shop.n < MaxShopOps

\* the index of the first element of a sequence that satisfies a test
\* (findIndex), 0 when there is none
FirstIndex(S) == IF S = {} THEN 0 ELSE CHOOSE n \in S : \A j \in S : n <= j

\* the elements of items that satisfy Keep, in order (Array.filter)
RECURSIVE Filter(_, _)
Filter(items, keep) ==
  IF items = <<>> THEN <<>>
  ELSE IF Head(items).productId \in keep THEN <<Head(items)>> \o Filter(Tail(items), keep)
       ELSE Filter(Tail(items), keep)

\* the validators of the Cart schema that a request can fail: quantity min 1
CartValid(items) == \A n \in 1..Len(items) : items[n].quantity >= 1

\* the outcome of a handler: the response and the Cart document it leaves
CartOutcome(c, msg, cart) == [code |-> c, message |-> msg, doc |-> cart]

\* POST /api/cart {productId, size, quantity}
AddItem(u, b) ==
  LET p     == b.productId
      s     == b.size
      q     == b.quantity
      items == carts[u].items
      idx   == FirstIndex({n \in 1..Len(items) : items[n].productId = p /\ items[n].size = s})
      new   == IF idx > 0 THEN [items EXCEPT ![idx].quantity = @ + q]
               ELSE Append(items, [productId |-> p, size |-> s, quantity |-> q])
  IN  IF q = 0 THEN CartOutcome(400, "MissingFields", carts[u])
      ELSE IF NotFound(p) THEN CartOutcome(404, "ProductNotFound", carts[u])
      ELSE IF s \notin DOMAIN stock[p] THEN CartOutcome(400, "SizeUnavailable", carts[u])
      ELSE IF stock[p][s] < q THEN CartOutcome(400, "InsufficientStock", carts[u])
      ELSE IF idx > 0 /\ stock[p][s] < items[idx].quantity + q
        THEN CartOutcome(400, "ExceedsStock", carts[u])
      ELSE IF ~CartValid(new) THEN CartOutcome(500, "FailedToAddItem", carts[u])
      ELSE CartOutcome(200, "none", [exists |-> TRUE, items |-> new])

\* the check `product.stock < quantity` of the update route: the Product
\* schema keeps the stock per size and has no path `stock`, so the left side
\* is undefined and the comparison is false for every quantity
FlatStockShort(p, q) == FALSE

\* PUT /api/cart/:productId {quantity}
UpdateItem(u, p, q) ==
  LET items == carts[u].items
      idx   == FirstIndex({n \in 1..Len(items) : items[n].productId = p})
      new   == [items EXCEPT ![idx].quantity = q]
  IN  IF NotFound(p) THEN CartOutcome(404, "ProductNotFound", carts[u])
      ELSE IF FlatStockShort(p, q) THEN CartOutcome(400, "InsufficientStock", carts[u])
      ELSE IF ~carts[u].exists THEN CartOutcome(404, "CartNotFound", carts[u])
      ELSE IF idx = 0 THEN CartOutcome(404, "ItemNotFound", carts[u])
      ELSE IF ~CartValid(new) THEN CartOutcome(500, "FailedToUpdateCart", carts[u])
      ELSE CartOutcome(200, "none", [exists |-> TRUE, items |-> new])

\* DELETE /api/cart/:productId
RemoveItem(u, seg) ==
  IF ~carts[u].exists THEN CartOutcome(404, "CartNotFound", carts[u])
  ELSE CartOutcome(200, "none",
                   [exists |-> TRUE, items |-> Filter(carts[u].items, PIDs \ {seg})])

\* DELETE /api/cart/clear: Cart.deleteOne
ClearCart(u) ==
  IF ~carts[u].exists THEN CartOutcome(404, "CartNotFound", carts[u])
  ELSE CartOutcome(200, "Cart cleared successfully", NoCart)

\* the handler the router dispatched to runs
CartHandle(h, u, path, b) ==
  CASE h = "addItem"    -> AddItem(u, b)
    [] h = "updateItem" -> UpdateItem(u, PathParam(path), b.quantity)
    [] h = "removeItem" -> RemoveItem(u, PathParam(path))
    [] h = "clearCart"  -> ClearCart(u)
    [] OTHER            -> CartOutcome(404, "NoRoute", carts[u])

\* a request to /api/cart by user u
CartRequest(u, m, path, b) ==
  /\ LET out == CartHandle(Dispatch(CartRoutes, m, path), u, path, b)
     IN  /\ carts' = [carts EXCEPT ![u] = out.doc]
         /\ shop' = [n |-> shop.n + 1, api |-> "cart", method |-> m, path |-> path,
                     user |-> u, quantity |-> b.quantity,
                     code |-> out.code, message |-> out.message]
  /\ UNCHANGED <<catalog, orders, pc, body, i, totalAmount, orderProducts, order, k, res,
                 pre, adminOps, mail, statusLog, wishlists, opt, ratings, rate, listing>>

CartPost(u, b) == ShopOp /\ CartRequest(u, "POST", <<>>, b)

CartPut(u, p, q) == ShopOp /\ CartRequest(u, "PUT", <<p>>, [quantity |-> q])

CartDelete(u, seg) == ShopOp /\ CartRequest(u, "DELETE", <<seg>>, [quantity |-> 0])

(* --------------------------------------------------------- /api/wishlist *)
\* the outcome of a handler: the response and the Wishlist document it leaves
WishOutcome(c, msg, w) == [code |-> c, message |-> msg, doc |-> w]

\* POST /api/wishlist {productId}
AddProduct(u, p) ==
  LET ps == wishlists[u].products
  IN  IF NotFound(p) THEN WishOutcome(404, "ProductNotFound", wishlists[u])
      ELSE IF \E n \in 1..Len(ps) : ps[n].productId = p
        THEN WishOutcome(400, "AlreadyInWishlist", wishlists[u])
      ELSE WishOutcome(200, "none", [exists |-> TRUE, products |-> Append(ps, [productId |-> p])])

\* DELETE /api/wishlist/:productId
RemoveProduct(u, seg) ==
  LET ps  == wishlists[u].products
      new == Filter(ps, PIDs \ {seg})
  IN  IF ~wishlists[u].exists THEN WishOutcome(404, "WishlistNotFound", wishlists[u])
      ELSE IF Len(new) = Len(ps) THEN WishOutcome(404, "ItemNotFound", wishlists[u])
      ELSE WishOutcome(200, "none", [exists |-> TRUE, products |-> new])

\* DELETE /api/wishlist/clear
ClearWishlist(u) ==
  IF ~wishlists[u].exists THEN WishOutcome(404, "WishlistNotFound", wishlists[u])
  ELSE WishOutcome(200, "Wishlist cleared successfully", [exists |-> TRUE, products |-> <<>>])

WishHandle(h, u, path, p) ==
  CASE h = "addProduct"    -> AddProduct(u, p)
    [] h = "removeProduct" -> RemoveProduct(u, PathParam(path))
    [] h = "clearWishlist" -> ClearWishlist(u)
    [] OTHER               -> WishOutcome(404, "NoRoute", wishlists[u])

\* a request to /api/wishlist by user u
WishRequest(u, m, path, p) ==
  /\ LET out == WishHandle(Dispatch(WishlistRoutes, m, path), u, path, p)
     IN  /\ wishlists' = [wishlists EXCEPT ![u] = out.doc]
         /\ shop' = [n |-> shop.n + 1, api |-> "wishlist", method |-> m, path |-> path,
                     user |-> u, quantity |-> 0,
                     code |-> out.code, message |-> out.message]
  /\ UNCHANGED <<catalog, orders, pc, body, i, totalAmount, orderProducts, order, k, res,
                 pre, adminOps, mail, statusLog, carts, opt, ratings, rate, listing>>

WishPost(u, p) == ShopOp /\ WishRequest(u, "POST", <<>>, p)

WishDelete(u, seg) == ShopOp /\ WishRequest(u, "DELETE", <<seg>>, "none")

(* ------------------------------------- POST /api/orders, optimized route *)
\* the length of an address of the model
AddressLen(a) == IF a = "" THEN 0 ELSE 11

\* validate(orderSchemas.create): at least one line item, every quantity an
\* integer of at least 1, an address of 10 to 200 characters
JoiValid(b) ==
  /\ Len(b.products) >= 1
  /\ \A n \in 1..Len(b.products) : b.products[n].quantity >= 1
  /\ AddressLen(b.address) >= 10 /\ AddressLen(b.address) <= 200

\* the sum of `product.price * item.quantity` over the line items
RECURSIVE OptTotal(_)
OptTotal(ps) ==
  IF ps = <<>> THEN 0
  ELSE price[Head(ps).productId] * Head(ps).quantity + OptTotal(Tail(ps))

\* Product.bulkWrite(stockUpdates): one updateOne per line item with
\* $inc {stock, salesCount}; `stock` is not a path of the Product schema,
\* whose stock is kept per size, so only salesCount is changed
RECURSIVE OptSales(_, _)
OptSales(ps, sc) ==
  IF ps = <<>> THEN sc
  ELSE OptSales(Tail(ps), IF Head(ps).productId \in live
                          THEN [sc EXCEPT ![Head(ps).productId] = @ + Head(ps).quantity]
                          ELSE sc)

\* the handler of routes/order_optimized.js for a request of user u with
\* body b on a catalog with sizes st and sales counters sc, running alone
\* and with the store answering: the response, the order created and the
\* catalog left
OptPlaceOrder(u, b, st, sc) ==
  LET ps == b.products
  IN  IF ~JoiValid(b) THEN
        [status |-> 400, error |-> "ValidationError", order |-> NoOrder,
         stock |-> st, salesCount |-> sc]
      ELSE IF \E n \in 1..Len(ps) : NotFound(ps[n].productId) THEN
        [status |-> 400, error |-> "ProductNotFound", order |-> NoOrder,
         stock |-> st, salesCount |-> sc]
      ELSE IF \E n \in 1..Len(ps) : FlatStockShort(ps[n].productId, ps[n].quantity) THEN
        [status |-> 400, error |-> "InsufficientStock", order |-> NoOrder,
         stock |-> st, salesCount |-> sc]
      ELSE
        [status |-> 201, error |-> "none",
         order |-> [userId |-> u, products |-> CastProducts(ps), totalAmount |-> OptTotal(ps),
                    address |-> b.address, status |-> "Pending", paymentMethod |-> "COD"],
         stock |-> st, salesCount |-> OptSales(ps, sc)]

\* the request that routes/order.js answered is given to the optimized route
\* on the catalog it arrived at
OptRun(r) ==
  /\ pc[r] = "done"
  /\ opt[r] = NoOpt
  /\ opt' = [opt EXCEPT ![r] = OptPlaceOrder(UserOf(r), body[r], pre[r].stock, pre[r].salesCount)]
  /\ UNCHANGED <<catalog, orders, pc, body, i, totalAmount, orderProducts, order, k, res,
                 pre, adminOps, mail, statusLog, carts, wishlists, shop, ratings, rate, listing>>

(* ----------------------------- POST /api/orders/:orderId/rate/:productId *)
MaxRating == 5

\* the ratings a request body may carry: none (0), two valid ones, and one
\* above the scale
RateValues == {0, 3, MaxRating, MaxRating + 1}

\* String.prototype.toLowerCase on the statuses of the model
ToLower(s) ==
  CASE s = "Pending"   -> "pending"
    [] s = "Shipped"   -> "shipped"
    [] s = "Delivered" -> "delivered"
    [] s = "Cancelled" -> "cancelled"
    [] s = "Refunded"  -> "refunded"
    [] OTHER           -> s

\* a check that lets every order be rated
NotDelivered_Unchecked(s) == FALSE

\* the check `order.status.toLowerCase() !== "delivered"`
NotDelivered(s) == ToLower(s) # "delivered"

\* the check `!rating || rating < 1 || rating > 5`
BadRating(v) == v = 0 \/ v < 1 \/ v > MaxRating

\* the handler of slot j answers
RateRespond(j, c) == rate' = [rate EXCEPT ![j].pc = "done", ![j].code = c]

RateFrame ==
  UNCHANGED <<catalog, orders, pc, body, i, totalAmount, orderProducts, order, k, res, pre,
              adminOps, mail, statusLog, carts, wishlists, shop, opt, listing>>

\* the request arrives and the rating is validated
RateStart(j, u, oid, p, v) ==
  /\ rate[j].pc = "idle"
  /\ rate' = [rate EXCEPT ![j] =
       [NoRate EXCEPT !.user = u, !.orderId = oid, !.productId = p, !.rating = v,
                      !.pc = IF BadRating(v) THEN "done" ELSE "findOrder",
                      !.code = IF BadRating(v) THEN 400 ELSE 0]]
  /\ UNCHANGED ratings
  /\ RateFrame

\* await Order.findOne({_id: orderId, userId}) and the checks on the order: a
\* malformed id fails the cast of the filter and the catch block answers 500
RateFindOrder(j) ==
  /\ rate[j].pc = "findOrder"
  /\ LET oid == rate[j].orderId
     IN  IF oid = BadId THEN RateRespond(j, 500)
         ELSE IF ~Resolves(oid) \/ orders[oid].userId # rate[j].user THEN RateRespond(j, 404)
         ELSE IF NotDelivered(orders[oid].status) THEN RateRespond(j, 400)
         ELSE IF \A n \in 1..Len(orders[oid].products) :
                    orders[oid].products[n].productId # rate[j].productId
           THEN RateRespond(j, 404)
         ELSE rate' = [rate EXCEPT ![j].pc = "saveOrder", ![j].order = orders[oid]]
  /\ UNCHANGED ratings
  /\ RateFrame

\* productItem.rating = rating; await order.save(): `rating` is not a path
\* of the line items of the Order schema, so the document has no modified
\* path and the save writes nothing
RateSaveOrder(j) ==
  /\ rate[j].pc = "saveOrder"
  /\ rate' = [rate EXCEPT ![j].pc = "findProduct"]
  /\ UNCHANGED ratings
  /\ RateFrame

\* await Product.findById(productId): the handler holds the ratings it read;
\* when the product is gone it answers at once
RateFindProduct(j) ==
  /\ rate[j].pc = "findProduct"
  /\ IF NotFound(rate[j].productId)
       THEN RateRespond(j, 200)
       ELSE rate' = [rate EXCEPT ![j].pc = "saveProduct", ![j].seen = ratings[rate[j].productId]]
  /\ UNCHANGED ratings
  /\ RateFrame

\* the index of the rating of (user, order) in the ratings the handler read
ExistingRatingIndex(j) ==
  FirstIndex({n \in 1..Len(rate[j].seen) :
                /\ rate[j].seen[n].userId = rate[j].user
                /\ rate[j].seen[n].orderId = rate[j].orderId})

\* await product.save() and the response. A new rating is sent as a $push,
\* which the store appends to the array as it is now; a changed rating is
\* sent as a $set of its position, guarded by the version of the document,
\* which every $push increments: the save fails when the array has grown
\* since it was read. The validators of the product run before the write.
RateSaveProduct(j) ==
  /\ rate[j].pc = "saveProduct"
  /\ LET p   == rate[j].productId
         idx == ExistingRatingIndex(j)
     IN  IF ~ProductValid(p, stock[p]) THEN
           RateRespond(j, 500) /\ UNCHANGED ratings
         ELSE IF idx = 0 THEN
           /\ ratings' = [ratings EXCEPT ![p] =
                Append(@, [userId |-> rate[j].user, orderId |-> rate[j].orderId,
                           rating |-> rate[j].rating])]
           /\ RateRespond(j, 200)
         ELSE IF Len(ratings[p]) # Len(rate[j].seen) THEN
           RateRespond(j, 500) /\ UNCHANGED ratings
         ELSE
           /\ ratings' = [ratings EXCEPT ![p][idx].rating = rate[j].rating]
           /\ RateRespond(j, 200)
  /\ RateFrame

\* the steps of a rating handler after the request arrived
RateStep(j) ==
  \/ RateFindOrder(j)
  \/ RateSaveOrder(j)
  \/ RateFindProduct(j)
  \/ RateSaveProduct(j)

(* --------------------------------------------------------- GET /api/orders *)
Undefined == 0 - 1   \* stands for the JavaScript value undefined of a price

\* a line of the response: populate("products.productId") resolves the
\* reference (null when the product is gone) and the price of the line is
\* read from the populated product
EnrichLine(item) ==
  [productId |-> item.productId, quantity |-> item.quantity,
   price |-> IF item.productId \in live THEN price[item.productId] ELSE Undefined]

Enrich(o) == [o EXCEPT !.products = [n \in 1..Len(o.products) |-> EnrichLine(o.products[n])]]

\* the orders GET /api/orders returns to user u (in insertion order)
RECURSIVE GetOrders(_, _)
GetOrders(u, os) ==
  IF os = <<>> THEN <<>>
  ELSE IF Head(os).userId = u THEN <<Enrich(Head(os))>> \o GetOrders(u, Tail(os))
       ELSE GetOrders(u, Tail(os))

(* ------------------- GET /orders, GET /admin/orders (order_optimized.js) *)
ListRoutes == {"orders", "admin/orders"}
Absent == 0          \* the query carries no `limit`
Ceil(a, b) == (a + b - 1) \div b
Lesser(a, b) == IF a < b THEN a ELSE b

\* the default of `limit` and the cap on the page size, per route
DefaultLimit(route) == IF route = "orders" THEN 10 ELSE 20
LimitCap(route) == IF route = "orders" THEN 50 ELSE 100

\* const { page = 1, limit = 10 } = req.query; parseInt(limit)
ParsedLimit(route, q) == IF q = Absent THEN DefaultLimit(route) ELSE q

\* the response to page `page` of a listing that matches `total` orders;
\* an order is named by its rank in the sort (createdAt descending)
ListOrders(route, page, q, total) ==
  LET limit    == ParsedLimit(route, q)
      skip     == (page - 1) * limit
      limitNum == Lesser(limit, LimitCap(route))
      count    == IF total - skip < 0 THEN 0 ELSE Lesser(limitNum, total - skip)
  IN  [count |-> count, total |-> total, page |-> page,
       pages |-> Ceil(total, limitNum),
       data  |-> [n \in 1..count |-> skip + n]]

\* a client fetches page `page` and keeps what it received
Fetch(route, page, q, total) ==
  LET r == ListOrders(route, page, q, total)
  IN  listing' = [route |-> route, limit |-> q, total |-> total, page |-> page,
                  pages |-> r.pages, count |-> r.count, data |-> r.data,
                  got |-> (IF page = 1 THEN <<>> ELSE listing.got) \o r.data,
                  nonEmpty |-> (IF page = 1 THEN 0 ELSE listing.nonEmpty)
                               + (IF r.count > 0 THEN 1 ELSE 0)]

ListFrame ==
  UNCHANGED <<catalog, orders, pc, body, i, totalAmount, orderProducts, order, k, res, pre,
              adminOps, mail, statusLog, carts, wishlists, shop, opt, ratings, rate>>

\* the first page of a listing that matches `total` orders
ListFirstPage(route, q, total) ==
  /\ listing = NoListing
  /\ Fetch(route, 1, q, total)
  /\ ListFrame

\* the page after the last one fetched, as long as the response announced one
ListNextPage ==
  /\ listing # NoListing
  /\ listing.page < listing.pages
  /\ Fetch(listing.route, listing.page + 1, listing.limit, listing.total)
  /\ ListFrame

(* --------------------------------------------------------- specifications *)
\* the steps of a handler after the request arrived; `ok` says whether the
\* store operation of the step succeeds or throws
Step(r) ==
  \/ \E ok \in BOOLEAN : Validate(r, ok)
  \/ \E ok \in BOOLEAN : Save(r, ok)
  \/ \E ok \in BOOLEAN : Decrement(r, ok)
  \/ \E ok \in BOOLEAN : FindUser(r, ok)
  \/ \E sent \in BOOLEAN : SendMail(r, sent)

\* a request with a body of B arrives in slot r
Arrive(r, B) == pc[r] = "idle" /\ \E b \in B : Start(r, b)

\* the first request arrives (in the first slot) and no other follows
ArriveAlone(r, B) == r = 1 /\ (\A q \in Reqs : pc[q] = "idle") /\ \E b \in B : Start(r, b)

\* one request, any body, on any initial catalog
Next == \E r \in Reqs : ArriveAlone(r, Bodies) \/ Step(r)

Spec == Init /\ [][Next]_vars

\* requests of one valid line item on size "Small" of product "p1", running
\* concurrently
ConcBodies == {b \in Bodies : /\ Len(b.products) = 1
                              /\ b.address # ""
                              /\ b.products[1].productId = "p1"
                              /\ b.products[1].size = "Small"
                              /\ b.products[1].quantity >= 1}

NextConc == \E r \in Reqs : Arrive(r, ConcBodies) \/ Step(r)

SpecConc == Init /\ [][NextConc]_vars

\* one request of valid line items of size "Small", one line per product,
\* with the admin operations running at any time
AdminBodies == {b \in Bodies : /\ b.products # <<>>
                               /\ b.address # ""
                               /\ \A n \in 1..Len(b.products) :
                                     /\ b.products[n].size = "Small"
                                     /\ b.products[n].productId \in {"p1", "p2"}
                                     /\ b.products[n].quantity >= 1
                                     /\ \A m \in 1..(n - 1) :
                                           b.products[m].productId # b.products[n].productId}

NextAdmin ==
  \/ \E r \in Reqs : ArriveAlone(r, AdminBodies) \/ Step(r)
  \/ \E p \in PIDs, s \in Sizes, v \in 0..MaxStock : UpdateStock(p, s, v)
  \/ \E p \in PIDs, v \in 1..MaxPrice : UpdatePrice(p, v)
  \/ \E p \in PIDs : DeleteProduct(p)

SpecAdmin == Init /\ [][NextAdmin]_vars

\* requests of one valid line item on a size of "p1", issued one after
\* another: a request arrives when the one before it has been answered
SeqBodies == {b \in Bodies : /\ Len(b.products) = 1
                             /\ b.address # ""
                             /\ b.products[1].productId = "p1"
                             /\ b.products[1].quantity >= 1}

ArriveNext(r, B) ==
  /\ pc[r] = "idle"
  /\ \A q \in 1..(r - 1) : pc[q] = "done"
  /\ \E b \in B : Start(r, b)

NextSeq == \E r \in Reqs : ArriveNext(r, SeqBodies) \/ Step(r)

SpecSeq == Init /\ [][NextSeq]_vars

\* one request for one unit of size "Small" of "p1", which is in stock, with
\* the status updates running at any time
StatusBodies == {b \in ConcBodies : b.products[1].quantity = 1}

InitStatus == Init /\ stock["p1"] = [Small |-> 1, Large |-> 0]

NextStatus ==
  \/ \E r \in Reqs : ArriveAlone(r, StatusBodies) \/ Step(r)
  \/ \E id \in OrderIds, s \in StatusInputs : UpdateStatus(id, s)
  \/ \E id \in OrderIds, s \in StatusInputs : AdminUpdateOrder(id, s)

SpecStatus == InitStatus /\ [][NextStatus]_vars

\* the same request, with the status routes called by customers and by the
\* admin
AuthStatuses == {"Shipped", "Refunded"}

NextAuth ==
  \/ \E r \in Reqs : ArriveAlone(r, StatusBodies) \/ Step(r)
  \/ \E u \in Callers, id \in OrderIds, s \in AuthStatuses : UpdateStatusBy(u, id, s)
  \/ \E u \in Callers, id \in OrderIds, s \in AuthStatuses : AdminUpdateOrderBy(u, id, s)

SpecAuth == InitStatus /\ [][NextAuth]_vars

\* cart requests of the two users, one after another, on a catalog with one
\* unit of each size in stock
PathSegments == PIDs \cup {"clear"}

CartBodies == {[productId |-> p, size |-> s, quantity |-> q] :
                 p \in PIDs, s \in Sizes, q \in MinQty..MaxQty}

NextCart ==
  \/ \E u \in Users, b \in CartBodies : CartPost(u, b)
  \/ \E u \in Users, p \in PIDs, q \in MinQty..MaxQty : CartPut(u, p, q)
  \/ \E u \in Users, seg \in PathSegments : CartDelete(u, seg)

SpecCart == InitStatus /\ [][NextCart]_vars

\* wishlist requests of the two users, one after another
NextWish ==
  \/ \E u \in Users, p \in PIDs : WishPost(u, p)
  \/ \E u \in Users, seg \in PathSegments : WishDelete(u, seg)

SpecWish == InitStatus /\ [][NextWish]_vars

\* one request, any body, on any initial catalog, with the store answering
\* every operation; the optimized route is then run on the same request
StepOk(r) ==
  \/ Validate(r, TRUE)
  \/ Save(r, TRUE)
  \/ Decrement(r, TRUE)
  \/ FindUser(r, TRUE)
  \/ \E sent \in BOOLEAN : SendMail(r, sent)

NextCompat == \E r \in Reqs : ArriveAlone(r, Bodies) \/ StepOk(r) \/ OptRun(r)

SpecCompat == Init /\ [][NextCompat]_vars

\* one order of "u1" for "p1", status updates of it, and one rating request
\* of any user, order, product and rating
RateStatuses == {"Shipped", "Delivered"}

RateAlone(j) ==
  /\ j = 1
  /\ \E u \in Users, oid \in OrderIds, p \in {"p1", "p2"}, v \in RateValues :
       RateStart(j, u, oid, p, v)

NextRate ==
  \/ \E r \in Reqs : ArriveAlone(r, StatusBodies) \/ Step(r)
  \/ \E s \in RateStatuses : UpdateStatus(1, s)
  \/ \E j \in RateSlots : RateAlone(j) \/ RateStep(j)

SpecRate == InitStatus /\ [][NextRate]_vars

\* the same order, delivered, and concurrent rating requests of "u1" for
\* "p1" in it
RateOwn(j) ==
  /\ Len(orders) = 1
  /\ \E v \in {3, MaxRating} : RateStart(j, "u1", 1, "p1", v)

NextRateConc ==
  \/ \E r \in Reqs : ArriveAlone(r, StatusBodies) \/ Step(r)
  \/ UpdateStatus(1, "Delivered")
  \/ \E j \in RateSlots : RateOwn(j) \/ RateStep(j)

SpecRateConc == InitStatus /\ [][NextRateConc]_vars

\* the paginated listings alone: a client walks through the pages of a
\* listing whose set of matching orders does not change meanwhile
Limits == {Absent, 1, 7, 50, 51, 100, 101}
Totals == 0..MaxOrders

NextList ==
  \/ \E route \in ListRoutes, q \in Limits, total \in Totals : ListFirstPage(route, q, total)
  \/ ListNextPage

SpecList == Init /\ [][NextList]_vars

(* ------------------------------------------------------------ properties *)
\* the line items of request r
Products(r) == body[r].products

\* the fault the validation finds in line item n of request r on the
\* catalog the request arrived at
Fault(r, n) ==
  LET item == Products(r)[n]
      p    == item.productId
  IN  IF p \notin live THEN "ProductNotFound"
      ELSE IF item.size \notin DOMAIN pre[r].stock[p] THEN "SizeUnavailable"
      ELSE IF pre[r].stock[p][item.size] < item.quantity THEN "InsufficientStock"
      ELSE "none"

\* the fault of the first faulty line item of request r
FirstFault(r) ==
  LET faulty == {n \in 1..Len(Products(r)) : Fault(r, n) # "none"}
  IN  Fault(r, CHOOSE n \in faulty : \A m \in faulty : n <= m)

\* the quantity request r orders of size s of product p, over all its lines
RECURSIVE QtyOf(_, _, _)
QtyOf(ps, p, s) ==
  IF ps = <<>> THEN 0
  ELSE (IF Head(ps).productId = p /\ Head(ps).size = s THEN Head(ps).quantity ELSE 0)
       + QtyOf(Tail(ps), p, s)

\* request r changed neither the orders nor the catalog counters
NoEffect(r) ==
  /\ orders = pre[r].orders
  /\ order[r] = NoOrder
  /\ stock = pre[r].stock
  /\ salesCount = pre[r].salesCount

\* C1: when two concurrent requests each ask for the whole stock N of the
\* same product and size (both arrived while the stock was N) and no store
\* operation failed, at most one of them succeeds, the other is answered
\* InsufficientStock, and the stock does not become negative.
C1_AtMostOneSucceeds ==
  \A r1, r2 \in Reqs :
    ( /\ r1 # r2
      /\ pc[r1] = "done" /\ pc[r2] = "done"
      /\ Len(Products(r1)) = 1 /\ Products(r2) = Products(r1)
      /\ res[r1].error # "OrderCreationFailed" /\ res[r2].error # "OrderCreationFailed"
      /\ LET item == Products(r1)[1]
         IN  /\ item.quantity >= 1
             /\ item.size \in DOMAIN stock[item.productId]
             /\ pre[r1].stock[item.productId][item.size] = item.quantity
             /\ pre[r2].stock[item.productId][item.size] = item.quantity )
    => /\ ~(res[r1].status = 201 /\ res[r2].status = 201)
       /\ (res[r1].status = 201 => res[r2].error = "InsufficientStock")
       /\ stock[Products(r1)[1].productId][Products(r1)[1].size] >= 0

\* C2: the stock count of every size of every product is never negative.
C2_StockNonNegative ==
  \A p \in live : \A s \in DOMAIN stock[p] : stock[p][s] >= 0

\* C3: when a stock update of a request (of positive quantities) throws
\* after its order was saved, the request ends with the orders and the stock
\* counts it arrived at.
C3_FailedDecrementLeavesNothing ==
  [][\A r \in Reqs :
       ( /\ pc[r] = "decrement" /\ pc'[r] = "done" /\ res'[r].status # 201
         /\ \A n \in 1..Len(body[r].products) : body[r].products[n].quantity >= 1 )
       => (orders' = pre[r].orders /\ stock' = pre[r].stock)]_vars

\* C4: a request of several line items, one of which asks for more than the
\* stock of its size, is answered 400, persists no order and leaves every
\* stock count and every salesCount as it was.
C4_ShortLineFailsWhole ==
  \A r \in Reqs :
    ( /\ pc[r] = "done"
      /\ Len(Products(r)) >= 2
      /\ \E n \in 1..Len(Products(r)) : Fault(r, n) = "InsufficientStock" )
    => (res[r].status = 400 /\ NoEffect(r))

C4_Witness ==
  \E r \in Reqs :
    /\ pc[r] = "done"
    /\ Len(Products(r)) = 2
    /\ Fault(r, 1) = "none" /\ Products(r)[1].quantity >= 1
    /\ Fault(r, 2) = "InsufficientStock"
    /\ res[r].error = "InsufficientStock"

C6_StockDecreasesByOrdered ==
  \A r \in Reqs :
    (pc[r] = "done" /\ res[r].status = 201)
    => \A p \in live : \A s \in DOMAIN stock[p] :
         stock[p][s] = pre[r].stock[p][s] - QtyOf(Products(r), p, s)

C6_Witness ==
  \E r \in Reqs :
    /\ pc[r] = "done" /\ res[r].status = 201
    /\ Len(Products(r)) = 2
    /\ Products(r)[1].productId = "p1" /\ Products(r)[1].size = "Small"
    /\ Products(r)[1].quantity = 2
    /\ Products(r)[2].productId = "p2" /\ Products(r)[2].quantity = 1
    /\ stock["p1"]["Large"] > 0

\* the sum of price * quantity over the lines the handler collected
RECURSIVE LineTotal(_)
LineTotal(ps) ==
  IF ps = <<>> THEN 0 ELSE Head(ps).price * Head(ps).quantity + LineTotal(Tail(ps))

\* C7: the order a successful request returns has one line per line item of
\* the request, and its totalAmount is the sum over them of the price read
\* from the catalog when the line was validated times the quantity.
C7_TotalIsSumOfLines ==
  \A r \in Reqs :
    (pc[r] = "done" /\ res[r].status = 201)
    => /\ Len(orderProducts[r]) = Len(Products(r))
       /\ Len(order[r].products) = Len(Products(r))
       /\ \A n \in 1..Len(Products(r)) :
            /\ orderProducts[r][n].quantity = Products(r)[n].quantity
            /\ order[r].products[n].quantity = Products(r)[n].quantity
       /\ order[r].totalAmount = LineTotal(orderProducts[r])

C7_Witness ==
  \E r \in Reqs :
    /\ pc[r] = "done" /\ res[r].status = 201
    /\ Len(orderProducts[r]) = 2
    /\ orderProducts[r][1].quantity = 2
    /\ orderProducts[r][1].price # orderProducts[r][2].price
    /\ orderProducts[r][2].productId \in live
    /\ orderProducts[r][2].price # price[orderProducts[r][2].productId]

\* C8: every order GET /api/orders returns carries a price on each line, and
\* its totalAmount is the sum of price * quantity over its lines, whatever
\* happened to the catalog since the order was created.
C8_ReturnedTotalMatchesLines ==
  \A u \in Users :
    LET os == GetOrders(u, orders)
    IN  \A n \in 1..Len(os) :
          /\ \A m \in 1..Len(os[n].products) : os[n].products[m].price # Undefined
          /\ os[n].totalAmount = LineTotal(os[n].products)

\* C9: no step decreases the salesCount of a product.
C9_SalesCountNeverDecreases ==
  [][\A p \in PIDs : salesCount'[p] >= salesCount[p]]_vars

\* C10: a request with no line item, with a line item of quantity below 1 or
\* with an empty address is answered 400, persists no order and changes no
\* stock count (a request that ends in the catch block although its address
\* is not empty met a failing store operation, which is the case of C3).
C10_BadInputRejected ==
  \A r \in Reqs :
    ( /\ pc[r] = "done"
      /\ (res[r].error = "OrderCreationFailed" => body[r].address = "")
      /\ \/ Products(r) = <<>>
         \/ \E n \in 1..Len(Products(r)) : Products(r)[n].quantity < 1
         \/ body[r].address = "" )
    => (res[r].status = 400 /\ NoEffect(r))

\* the one line item of a single-item request r
Item1(r) == Products(r)[1]

\* request r asks for exactly the stock its size had when it arrived
Exact(r) ==
  /\ pc[r] # "idle"
  /\ Item1(r).quantity = pre[r].stock[Item1(r).productId][Item1(r).size]

\* C11: with requests issued one after another, an order for exactly the
\* remaining stock of a size succeeds and leaves the stock of the size at
\* 0, and every later order for a positive quantity of that size fails with
\* InsufficientStock (store failures aside).
C11_ExactOrderThenInsufficient ==
  \A r1 \in Reqs :
    (pc[r1] = "done" /\ Exact(r1) /\ res[r1].error # "OrderCreationFailed") =>
      /\ res[r1].status = 201
      /\ stock[Item1(r1).productId][Item1(r1).size] = 0
      /\ \A r2 \in Reqs :
           ( /\ r2 > r1
             /\ pc[r2] = "done"
             /\ Item1(r2).productId = Item1(r1).productId
             /\ Item1(r2).size = Item1(r1).size
             /\ res[r2].error # "OrderCreationFailed" )
           => res[r2] = [status |-> 400, error |-> "InsufficientStock"]

\* an order for 2 of a size with stock 2 succeeded, and the same request
\* issued after it was rejected for insufficient stock
C11_Witness ==
  /\ pc[1] = "done" /\ pc[2] = "done"
  /\ pre[1].stock["p1"]["Large"] = 2
  /\ Item1(1) = [productId |-> "p1", size |-> "Large", quantity |-> 2]
  /\ res[1].status = 201
  /\ body[2] = body[1]
  /\ stock["p1"]["Large"] = 0
  /\ res[2] = [status |-> 400, error |-> "InsufficientStock"]

\* C12: a failure of the notifier, or of the step that prepares it, never
\* makes placeOrder report failure: a request whose order was persisted and
\* whose stock was decremented for every line is answered with 201.
C12_NotifierFailureKeepsSuccess ==
  \A r \in Reqs :
    ( /\ pc[r] = "done"
      /\ order[r] # NoOrder
      /\ Products(r) # <<>>
      /\ k[r] > Len(Products(r)) )
    => res[r].status = 201

\* C13: the notifier is fire-and-forget: the response does not wait for it,
\* so whenever a call of sendOrderConfirmation is in flight the 201 response
\* of its request has been sent.
C13_ResponseDoesNotWaitForNotifier ==
  \A r \in Reqs :
    (mail[r].state = "sending" /\ Products(r) # <<>>) =>
      (pc[r] = "done" /\ res[r].status = 201)

\* the users that have an e-mail address on file
WithEmail == {"u1"}

\* C14: the notifier is invoked only after the order of the request has been
\* persisted, exactly once for a successful placeOrder of a user with an
\* e-mail address, at most once in any case, and never for a request
\* rejected during validation.
C14_NotifiedOncePerCreatedOrder ==
  \A r \in Reqs :
    /\ mail[r].calls <= 1
    /\ mail[r].calls >= 1 =>
          (order[r] # NoOrder /\ Len(orders) > Len(pre[r].orders))
    /\ (pc[r] = "done" /\ res[r].status = 201 /\ UserOf(r) \in WithEmail) =>
          mail[r].calls = 1
    /\ (pc[r] = "done" /\ res[r].error \in {"ProductNotFound", "SizeUnavailable", "InsufficientStock"}) =>
          mail[r].calls = 0

\* one request succeeded and its user was notified once, another was
\* rejected during validation and its user was not notified
C14_Witness ==
  \E r1, r2 \in Reqs :
    /\ pc[r1] = "done" /\ res[r1].status = 201
    /\ UserOf(r1) \in WithEmail
    /\ mail[r1] = [calls |-> 1, state |-> "sent"]
    /\ pc[r2] = "done" /\ res[r2].error = "InsufficientStock"
    /\ mail[r2].calls = 0

\* the status update served by a step, when the step serves one
Served == Len(statusLog') > Len(statusLog)
Entry == statusLog'[Len(statusLog')]

\* C15: a status update whose status is outside Pending, Shipped,
\* Delivered, Cancelled does not succeed, and the status of every persisted
\* order is always one of these four.
C15_StatusAlwaysAllowed ==
  /\ \A n \in 1..Len(orders) : orders[n].status \in AllowedStatuses
  /\ \A m \in 1..Len(statusLog) :
       statusLog[m].status \notin AllowedStatuses => statusLog[m].code # 200

\* C16: a status update on an id that resolves to no order is answered
\* with 404 and leaves the Order collection as it was.
C16_UnknownOrderIs404 ==
  [][(Served /\ ~Resolves(Entry.id)) => (Entry.code = 404 /\ orders' = orders)]_vars

\* C17: a status update that repeats the update served before it (same
\* order, same allowed status, answered with 200) is answered with 200 as
\* well and leaves every order as the first one left it.
C17_UpdateStatusIdempotent ==
  [][( /\ Served
       /\ statusLog # <<>>
       /\ Resolves(Entry.id)
       /\ Entry.status \in AllowedStatuses
       /\ statusLog[Len(statusLog)].id = Entry.id
       /\ statusLog[Len(statusLog)].status = Entry.status
       /\ statusLog[Len(statusLog)].code = 200 )
     => (Entry.code = 200 /\ orders' = orders)]_vars

\* the same update of the first order to "Shipped" was served twice
C17_Witness ==
  /\ Len(statusLog) = 2
  /\ statusLog[1] = statusLog[2]
  /\ statusLog[2].id = 1 /\ statusLog[2].status = "Shipped" /\ statusLog[2].code = 200
  /\ Len(orders) = 1 /\ orders[1].status = "Shipped"

C19_StoreFailureIs500 ==
  [][\A r \in Reqs :
       ( /\ pc[r] \in {"save", "decrement"}
         /\ pc'[r] = "done"
         /\ Products(r) # <<>>
         /\ body[r].address # "" )
       => res'[r].status = 500]_vars

\* C20: an order enters the collection with status "Pending"; afterwards no
\* operation removes it and none changes a field of it other than status.
C20_OnlyStatusChanges ==
  [][/\ Len(orders') >= Len(orders)
     /\ \A n \in 1..Len(orders) :
          orders'[n] = [orders[n] EXCEPT !.status = orders'[n].status]
     /\ \A n \in (Len(orders) + 1)..Len(orders') :
          orders'[n].status = "Pending"]_vars

\* the order of "u1" was set to "Shipped" and kept its owner, line items,
\* total and address
C20_Witness ==
  /\ Len(orders) = 1
  /\ orders[1] = [order[1] EXCEPT !.status = "Shipped"]
  /\ order[1].userId = "u1" /\ order[1].products # <<>> /\ order[1].status = "Pending"
  /\ \E m \in 1..Len(statusLog) : statusLog[m].id = 1 /\ statusLog[m].code = 200

\* C21: a status update requested by an account that is not an admin is
\* answered 403 and leaves every order as it was.
C21_OnlyAdminChangesStatus ==
  [][(Served /\ Entry.by \in Users) => (Entry.code = 403 /\ orders' = orders)]_vars

\* a customer asked for a status change of the existing first order, was
\* answered 403, and the order kept its status
C21_Witness ==
  /\ Len(orders) = 1 /\ orders[1].status = "Pending"
  /\ Len(statusLog) = 1
  /\ statusLog[1].by = "u2" /\ statusLog[1].id = 1
  /\ statusLog[1].status = "Shipped" /\ statusLog[1].code = 403

\* the step serves a request to the cart (wishlist) routes
CartServed(m) == shop'.n > shop.n /\ shop'.api = "cart" /\ shop'.method = m
WishServed(m) == shop'.n > shop.n /\ shop'.api = "wishlist" /\ shop'.method = m

\* C22: DELETE /api/cart/clear by a user whose cart holds items leaves the
\* user without cart items and answers "Cart cleared successfully".
C22_ClearCartEmptiesCart ==
  [][( /\ CartServed("DELETE")
       /\ shop'.path = <<"clear">>
       /\ carts[shop'.user].items # <<>> )
     => ( /\ carts'[shop'.user].items = <<>>
          /\ shop'.code = 200
          /\ shop'.message = "Cart cleared successfully" )]_vars

\* C23: DELETE /api/wishlist/clear by a user whose wishlist holds products
\* leaves the wishlist empty and answers 200 "Wishlist cleared
\* successfully".
C23_ClearWishlistEmptiesWishlist ==
  [][( /\ WishServed("DELETE")
       /\ shop'.path = <<"clear">>
       /\ wishlists[shop'.user].products # <<>> )
     => ( /\ wishlists'[shop'.user].products = <<>>
          /\ shop'.code = 200
          /\ shop'.message = "Wishlist cleared successfully" )]_vars

\* the cart item of user u that PUT /api/cart/p addresses (0 when none)
PutIndex(u, p) ==
  FirstIndex({n \in 1..Len(carts[u].items) : carts[u].items[n].productId = p})

\* C24: PUT /api/cart/:productId for an item of the cart, with a quantity
\* below 1 or above the stock of the item's product size, answers 400 and
\* leaves the cart unchanged.
C24_CartQuantityWithinStock ==
  [][( /\ CartServed("PUT")
       /\ shop'.path[1] \in live
       /\ PutIndex(shop'.user, shop'.path[1]) > 0
       /\ LET item == carts[shop'.user].items[PutIndex(shop'.user, shop'.path[1])]
          IN  \/ shop'.quantity < 1
              \/ shop'.quantity > stock[item.productId][item.size] )
     => (shop'.code = 400 /\ carts' = carts)]_vars

PositiveLines(r) == \A n \in 1..Len(Products(r)) : Products(r)[n].quantity >= 1

\* C26: a request whose line items for one product and size add up to more
\* than the stock of that size is rejected and changes no stock, also when
\* each of the quantities fits on its own (store failures aside).
C26_SameSizeLinesSummed ==
  \A r \in Reqs :
    ( /\ pc[r] = "done"
      /\ PositiveLines(r)
      /\ res[r].error # "OrderCreationFailed"
      /\ \E n \in 1..Len(Products(r)) :
           LET p == Products(r)[n].productId
               s == Products(r)[n].size
           IN  /\ p \in live
               /\ s \in DOMAIN pre[r].stock[p]
               /\ QtyOf(Products(r), p, s) > pre[r].stock[p][s] )
    => (res[r].status = 400 /\ stock = pre[r].stock)

\* the quantity of product p over the line items ps of an order
RECURSIVE LinesQty(_, _)
LinesQty(ps, p) ==
  IF ps = <<>> THEN 0
  ELSE (IF Head(ps).productId = p THEN Head(ps).quantity ELSE 0) + LinesQty(Tail(ps), p)

\* the quantity of product p over the persisted orders os
RECURSIVE OrderedQty(_, _)
OrderedQty(os, p) ==
  IF os = <<>> THEN 0
  ELSE LinesQty(Head(os).products, p) + OrderedQty(Tail(os), p)

\* the stock of product p summed over its sizes in catalog st
RECURSIVE TotalStockOver(_, _)
TotalStockOver(f, S) ==
  IF S = {} THEN 0
  ELSE LET s == CHOOSE x \in S : TRUE IN f[s] + TotalStockOver(f, S \ {s})

TotalStock(st, p) == TotalStockOver(st[p], DOMAIN st[p])

\* C27: once the request has been answered (whether it succeeded or
\* failed), the salesCount of every product equals the quantity of the
\* product over the persisted orders, and so does the stock removed from it.
C27_StockConservedAgainstOrders ==
  (pc[1] = "done" /\ PositiveLines(1)) =>
    \A p \in live :
      /\ salesCount[p] = OrderedQty(orders, p)
      /\ TotalStock(pre[1].stock, p) - TotalStock(stock, p) = OrderedQty(orders, p)

\* C28: the ratings of a product hold at most one entry per user and order.
C28_OneRatingPerUserAndOrder ==
  \A p \in PIDs : \A m, n \in 1..Len(ratings[p]) :
    (ratings[p][m].userId = ratings[p][n].userId /\ ratings[p][m].orderId = ratings[p][n].orderId)
    => m = n

\* the rating request of slot j is answered by the step
RateAnswered(j) == rate[j].pc # "done" /\ rate'[j].pc = "done"

\* the request of slot j names an existing order of its user that holds its
\* product, with a rating from 1 to 5
Eligible(j) ==
  /\ rate[j].orderId \in 1..Len(orders)
  /\ orders[rate[j].orderId].userId = rate[j].user
  /\ \E n \in 1..Len(orders[rate[j].orderId].products) :
       orders[rate[j].orderId].products[n].productId = rate[j].productId
  /\ rate[j].rating \in 1..5

\* a step that changes the ratings is a step of an eligible request whose
\* order was "Delivered" when the handler read it, and no step of a rating
\* request changes an order
RecordedOnlyWhenEligible ==
  /\ ratings' # ratings =>
       \E j \in RateSlots :
         /\ RateAnswered(j)
         /\ Eligible(j)
         /\ rate[j].order.status = "Delivered"
  /\ (\E j \in RateSlots : RateAnswered(j)) => orders' = orders

\* a request answered before the product is looked up was rejected
RejectedEarly(j) == RateAnswered(j) /\ rate[j].pc \in {"idle", "findOrder"}

WalkDone == listing # NoListing /\ listing.page >= listing.pages

\* the number of times order n was returned during the walk
Returned(n) == Cardinality({x \in 1..Len(listing.got) : listing.got[x] = n})

\* C30: in the paginated order listings, for every page size (also above
\* the cap) and every number of matching orders, fetching pages 1 to
\* `pages` in turn returns every matching order exactly once, and `pages`
\* is the number of non-empty pages.
C30_PagesCoverEveryOrderOnce ==
  WalkDone =>
    /\ \A n \in 1..listing.total : Returned(n) = 1
    /\ Len(listing.got) = listing.total
    /\ listing.nonEmpty = listing.pages

\* C30 for page sizes within the cap
C30_WithinCap ==
  (WalkDone /\ ParsedLimit(listing.route, listing.limit) <= LimitCap(listing.route)) =>
    /\ \A n \in 1..listing.total : Returned(n) = 1
    /\ Len(listing.got) = listing.total
    /\ listing.nonEmpty = listing.pages


====
